---- MODULE Spec2Model ----
(***************************************************************************)
(* Cross-entropy method on CartPole (cart-pole.ipynb).                     *)
(*                                                                         *)
(* The model covers the three pieces of the notebook that carry control    *)
(* flow: the generator iterate_batches, the pure function filter_batch and *)
(* the training loop under __main__.  The neural network, the optimizer    *)
(* and the gym environment are external collaborators: the network is a    *)
(* parameter version that optimizer.step() advances, action sampling is a  *)
(* free choice among the actions (softmax gives every action a positive    *)
(* probability), and the environment is a small simulator with the         *)
(* reset()/step() interface.                                               *)
(*                                                                         *)
(* Rewards are integers.  np.percentile and np.mean return reals; they are *)
(* kept exact as rationals [num, den] with den > 0 (floating-point         *)
(* rounding of numpy is not modelled).                                     *)
(***************************************************************************)
EXTENDS Integers, Sequences, FiniteSets, TLC

\* ---------------------------------------------------------------- bounds
\* largest batch_size explored (the notebook runs with BATCH_SIZE = 16)
MaxBatch == 2
\* longest episode the environment allows (CartPole-v0 cuts episodes at 200)
MaxSteps == 2
\* number of batches the training loop may pull before exploration stops
MaxIters == 2
\* longest batch handed to filter_batch when it is checked as a function
MaxFBatch == 3

\* ------------------------------------------------------- program constants
PERCENTILE == 70
SolvedThreshold == 199

\* ------------------------------------------------------------- rationals
Rat(n, d) == [num |-> n, den |-> d]
RatLT(a, b) == a.num * b.den < b.num * a.den
RatEQ(a, b) == a.num * b.den = b.num * a.den
RatLE(a, b) == ~RatLT(b, a)

\* --------------------------------------------------------------- records
EpisodeStep(o, a) == [observation |-> o, action |-> a]
Episode(r, s) == [reward |-> r, steps |-> s]

\* ----------------------------------------------------------- environment
\* The environment is external.  Three scripted simulators stand for it:
\*   "unit"   ends after exactly env_K steps, reward 1 per step;
\*   "graded" ends after exactly env_K steps, reward 99 or 100 by action;
\*   "fall"   ends when action 0 is taken or after env_K steps (time limit),
\*            reward 99 or 100 by action.
\* The observation returned by reset() is 0, the one returned by the t-th
\* step of an episode is t.
EnvKinds == {"unit", "graded", "fall"}
Actions == {0, 1}
ResetObs == 0

EnvReward(kind, action) == IF kind = "unit" THEN 1 ELSE 99 + action

EnvDone(kind, K, t, action) ==
  IF kind = "fall" THEN (action = 0 \/ t >= K) ELSE t >= K


\* ---------------------------------------------------------- filter_batch
RECURSIVE Insert(_, _)
Insert(x, s) ==
  IF s = <<>> THEN <<x>>
  ELSE IF x <= Head(s) THEN <<x>> \o s
  ELSE <<Head(s)>> \o Insert(x, Tail(s))

RECURSIVE Sorted(_)
Sorted(s) == IF s = <<>> THEN <<>> ELSE Insert(Head(s), Sorted(Tail(s)))

RECURSIVE Sum(_)
Sum(s) == IF s = <<>> THEN 0 ELSE Head(s) + Sum(Tail(s))

\* rewards = list(map(lambda s: s.reward, batch))
RewardsOf(b) == [i \in 1..Len(b) |-> b[i].reward]

\* np.percentile as it would be if the rewards were not put in order
np_percentile_unsorted(rs, q) ==
  LET n   == Len(rs)
      pos == q * (n - 1)
      lo  == pos \div 100
      fr  == pos % 100
      hi  == IF lo + 1 > n - 1 THEN n - 1 ELSE lo + 1
  IN  Rat(100 * rs[lo + 1] + fr * (rs[hi + 1] - rs[lo + 1]), 100)

\* np.percentile as it would be with interpolation='lower'
np_percentile_lower(rs, q) ==
  LET n   == Len(rs)
      r   == Sorted(rs)
      lo  == (q * (n - 1)) \div 100
  IN  Rat(100 * r[lo + 1], 100)

\* np.percentile(rewards, q), default linear interpolation: with the rewards
\* sorted as r[0..n-1], the value at fractional rank q/100*(n-1).  The rank
\* is kept in hundredths: lo is its integer part, fr its fraction * 100.
np_percentile(rs, q) ==
  LET n   == Len(rs)
      r   == Sorted(rs)
      pos == q * (n - 1)
      lo  == pos \div 100
      fr  == pos % 100
      hi  == IF lo + 1 > n - 1 THEN n - 1 ELSE lo + 1
  IN  Rat(100 * r[lo + 1] + fr * (r[hi + 1] - r[lo + 1]), 100)

\* float(np.mean(rewards))
np_mean(rs) == Rat(Sum(rs), Len(rs))

\* the test as it would be with "<=": ties at the bound are dropped
Skipped_le(example, reward_bound) == RatLE(Rat(example.reward, 1), reward_bound)

\* "if example.reward < reward_bound: continue"
Skipped(example, reward_bound) == RatLT(Rat(example.reward, 1), reward_bound)

\* train_obs.extend(map(lambda step: step.observation, example.steps))
ObsOf(steps) == [k \in 1..Len(steps) |-> steps[k].observation]
\* train_act.extend(map(lambda step: step.action, example.steps))
ActOf(steps) == [k \in 1..Len(steps) |-> steps[k].action]

\* the loop as it would be if each example's steps were put in front
RECURSIVE FilterLoop_front(_, _, _, _, _, _)
FilterLoop_front(b, reward_bound, i, train_obs, train_act, kept) ==
  IF i > Len(b) THEN [obs |-> train_obs, act |-> train_act, kept |-> kept]
  ELSE IF Skipped(b[i], reward_bound)
       THEN FilterLoop_front(b, reward_bound, i + 1, train_obs, train_act, kept)
       ELSE FilterLoop_front(b, reward_bound, i + 1,
              ObsOf(b[i].steps) \o train_obs,
              ActOf(b[i].steps) \o train_act,
              Append(kept, i))

\* The for loop of filter_batch from example i on, given the lists so far.
\* kept records the positions of the examples that reached the two extend
\* calls (it is not a value of the program).
RECURSIVE FilterLoop(_, _, _, _, _, _)
FilterLoop(b, reward_bound, i, train_obs, train_act, kept) ==
  IF i > Len(b) THEN [obs |-> train_obs, act |-> train_act, kept |-> kept]
  ELSE IF Skipped(b[i], reward_bound)
       THEN FilterLoop(b, reward_bound, i + 1, train_obs, train_act, kept)
       ELSE FilterLoop(b, reward_bound, i + 1,
              train_obs \o ObsOf(b[i].steps),
              train_act \o ActOf(b[i].steps),
              Append(kept, i))

filter_batch(b, q) ==
  LET rewards      == RewardsOf(b)
      reward_bound == np_percentile(rewards, q)
      reward_mean  == np_mean(rewards)
      train        == FilterLoop(b, reward_bound, 1, <<>>, <<>>, <<>>)
  IN  [obs_v |-> train.obs, acts_v |-> train.act,
       reward_b |-> reward_bound, reward_m |-> reward_mean,
       kept |-> train.kept]

\* ----------------------------------------------------------------- state
VARIABLES
  pc,              \* where control is: "pull", "gen", "filter", "update", "check", "done"
  batch_size,      \* iterate_batches argument
  percentile,      \* filter_batch argument
  env_kind, env_K, \* which simulator stands for env
  env_t,           \* env: steps taken since the last reset()
  env_ret,         \* env: sum of the rewards handed out since the last reset()
  env_log,         \* env: [ret, len] of the episodes it finished since the
                   \*      generator was last entered
  gen_started,     \* the generator body has begun (first next() happened)
  batch, episode_reward, episode_steps, obs, next_obs,   \* iterate_batches locals
  tbatch,          \* __main__: the loop variable batch
  aliased,         \* the generator's batch and the loop's batch name the same list
  iter_no,         \* __main__: enumerate counter, -1 before the first batch
  obs_v, acts_v, reward_b, reward_m,   \* __main__: results of filter_batch
  kept,            \* positions in tbatch of the examples filter_batch extended from
  net_version,     \* number of optimizer.step() calls applied to net
  sampled_with,    \* parameter versions the actions of the batch under
                   \* construction were sampled with (not a value of the program)
  tsampled         \* the same for the batch the training loop holds

vars == <<pc, batch_size, percentile, env_kind, env_K, env_t, env_ret, env_log,
          gen_started, batch, episode_reward, episode_steps, obs, next_obs,
          tbatch, iter_no, obs_v, acts_v, reward_b, reward_m, kept, net_version,
          sampled_with, tsampled, aliased>>

envVars == <<env_t, env_ret, env_log>>
cfgVars == <<batch_size, percentile, env_kind, env_K>>
genVars == <<gen_started, batch, episode_reward, episode_steps, obs, next_obs>>
filterVars == <<obs_v, acts_v, reward_b, reward_m, kept>>
verVars == <<sampled_with, tsampled>>

\* batches the training loop has received so far
BatchesPulled == iter_no + 1

Init ==
  /\ pc = "pull"
  /\ batch_size \in 1..MaxBatch
  /\ percentile = PERCENTILE
  /\ env_kind \in EnvKinds
  /\ env_K \in 1..MaxSteps
  /\ env_t = 0 /\ env_ret = 0 /\ env_log = <<>>
  /\ gen_started = FALSE
  /\ batch = <<>> /\ episode_reward = 0 /\ episode_steps = <<>>
  /\ obs = ResetObs /\ next_obs = ResetObs
  /\ tbatch = <<>>
  /\ iter_no = -1
  /\ obs_v = <<>> /\ acts_v = <<>> /\ kept = <<>>
  /\ reward_b = Rat(0, 1) /\ reward_m = Rat(0, 1)
  /\ net_version = 0
  /\ sampled_with = {} /\ tsampled = {}
  /\ aliased = FALSE

\* ------------------------------------------------------- iterate_batches
\* First next() of the for loop: the generator body runs from its top to
\* the head of "while True".
Start ==
  /\ pc = "pull" /\ ~gen_started
  /\ BatchesPulled < MaxIters
  /\ gen_started' = TRUE
  /\ batch' = <<>>
  /\ episode_reward' = 0
  /\ episode_steps' = <<>>
  /\ obs' = ResetObs /\ env_t' = 0 /\ env_ret' = 0 /\ env_log' = <<>>
  /\ next_obs' = next_obs
  /\ sampled_with' = {}
  /\ pc' = "gen"
  /\ UNCHANGED <<cfgVars, tbatch, iter_no, filterVars, net_version, tsampled, aliased>>

\* the generator as it would be if its loop ended after one batch: the next
\* next() raises StopIteration and the for loop is over
Resume_exhausted ==
  /\ pc = "pull" /\ gen_started
  /\ pc' = "done"
  /\ UNCHANGED <<verVars, aliased, cfgVars, envVars, genVars, tbatch, iter_no, filterVars, net_version>>

\* the resumption as it would be with "batch.clear()": the list handed to
\* the loop is emptied, no new list is made
Resume_clear ==
  /\ pc = "pull" /\ gen_started
  /\ BatchesPulled < MaxIters
  /\ batch' = <<>>
  /\ tbatch' = IF aliased THEN <<>> ELSE tbatch
  /\ obs' = next_obs
  /\ env_log' = <<>>
  /\ sampled_with' = {}
  /\ pc' = "gen"
  /\ UNCHANGED <<cfgVars, env_t, env_ret, gen_started, episode_reward,
                 episode_steps, next_obs, iter_no, filterVars, net_version,
                 tsampled, aliased>>

\* A later next(): the generator continues after "yield batch".  "batch = []"
\* binds the generator's name to a new list; the list handed to the loop is
\* no longer reachable from the generator.
Resume ==
  /\ pc = "pull" /\ gen_started
  /\ BatchesPulled < MaxIters
  /\ batch' = <<>>
  /\ aliased' = FALSE
  /\ obs' = next_obs
  /\ env_log' = <<>>
  /\ sampled_with' = {}
  /\ pc' = "gen"
  /\ UNCHANGED <<cfgVars, env_t, env_ret, gen_started, episode_reward,
                 episode_steps, next_obs, tbatch, iter_no, filterVars, net_version,
                 tsampled>>

\* the parameters as they would be read if the generator saw each update
\* one batch late
PolicyVersion_snapshot == IF net_version > 0 THEN net_version - 1 ELSE net_version

\* "act_probs_v = sm(net(obs_v))": the parameters the action is sampled with
PolicyVersion == net_version

\* One pass through the body of "while True" in which env.step does not
\* report done.
StepOn ==
  /\ pc = "gen"
  /\ \E action \in Actions :
       LET t      == env_t + 1
           reward == EnvReward(env_kind, action)
       IN  /\ ~EnvDone(env_kind, env_K, t, action)
           /\ env_t' = t
           /\ env_ret' = env_ret + reward
           /\ episode_reward' = episode_reward + reward
           /\ episode_steps' = Append(episode_steps, EpisodeStep(obs, action))
           /\ next_obs' = t
           /\ obs' = t
  /\ sampled_with' = sampled_with \cup {PolicyVersion}
  /\ UNCHANGED <<pc, cfgVars, env_log, gen_started, batch, tbatch, iter_no,
                 filterVars, net_version, tsampled, aliased>>

\* the episode as it would be if it were built before "episode_reward += reward"
ClosedEpisode_stale(action) ==
  Episode(episode_reward, Append(episode_steps, EpisodeStep(obs, action)))

\* the episode as it would be if done were examined before the step is recorded
ClosedEpisode_nostep(action) ==
  Episode(episode_reward + EnvReward(env_kind, action), episode_steps)

\* The episode appended by a pass in which env.step reports done.
ClosedEpisode(action) ==
  Episode(episode_reward + EnvReward(env_kind, action),
          Append(episode_steps, EpisodeStep(obs, action)))

\* the observation carried on as it would be if the result of env.reset()
\* were dropped
ObsAfterDone_kept(step_obs, reset_obs) == step_obs

\* "next_obs = env.reset()" after done: the observation returned by the
\* step is replaced by the one returned by the reset
ObsAfterDone(step_obs, reset_obs) == reset_obs

\* the test as it would be with ">"
BatchFull_late(b, size) == Len(b) > size

\* the batch is complete: "len(batch) == batch_size"
BatchFull(b, size) == Len(b) = size

\* A pass in which env.step reports done and the batch is not yet full.
\* batch.append works on the list object: were that list still the one the
\* loop holds, the loop's batch would grow with it.
StepDone ==
  /\ pc = "gen"
  /\ \E action \in Actions :
       /\ EnvDone(env_kind, env_K, env_t + 1, action)
       /\ batch' = Append(batch, ClosedEpisode(action))
       /\ env_log' = Append(env_log,
             [ret |-> env_ret + EnvReward(env_kind, action), len |-> env_t + 1])
  /\ ~BatchFull(batch', batch_size)
  /\ episode_reward' = 0
  /\ episode_steps' = <<>>
  /\ env_t' = 0 /\ env_ret' = 0
  /\ next_obs' = ObsAfterDone(env_t + 1, ResetObs)
  /\ obs' = next_obs'
  /\ sampled_with' = sampled_with \cup {PolicyVersion}
  /\ tbatch' = IF aliased THEN batch' ELSE tbatch
  /\ UNCHANGED <<pc, cfgVars, gen_started, iter_no, filterVars, net_version,
                 tsampled, aliased>>

\* A pass in which env.step reports done and the batch becomes full: the
\* generator suspends at "yield batch" and the for loop binds iter_no, batch.
StepYield ==
  /\ pc = "gen"
  /\ \E action \in Actions :
       /\ EnvDone(env_kind, env_K, env_t + 1, action)
       /\ batch' = Append(batch, ClosedEpisode(action))
       /\ env_log' = Append(env_log,
             [ret |-> env_ret + EnvReward(env_kind, action), len |-> env_t + 1])
  /\ BatchFull(batch', batch_size)
  /\ episode_reward' = 0
  /\ episode_steps' = <<>>
  /\ env_t' = 0 /\ env_ret' = 0
  /\ next_obs' = ObsAfterDone(env_t + 1, ResetObs)
  /\ tbatch' = batch'
  /\ iter_no' = iter_no + 1
  /\ sampled_with' = sampled_with \cup {PolicyVersion}
  /\ tsampled' = sampled_with'
  /\ aliased' = TRUE
  /\ pc' = "filter"
  /\ UNCHANGED <<cfgVars, gen_started, obs, filterVars, net_version>>

\* --------------------------------------------------------- training loop
\* obs_v, acts_v, reward_b, reward_m = filter_batch(batch, PERCENTILE)
Filter ==
  /\ pc = "filter"
  /\ LET res == filter_batch(tbatch, percentile)
     IN  /\ obs_v' = res.obs_v
         /\ acts_v' = res.acts_v
         /\ reward_b' = res.reward_b
         /\ reward_m' = res.reward_m
         /\ kept' = res.kept
  /\ pc' = "update"
  /\ UNCHANGED <<verVars, aliased, cfgVars, envVars, genVars, tbatch, iter_no, net_version>>

\* the update as it would be with two passes over the training set
Update_twice ==
  /\ pc = "update"
  /\ net_version' = net_version + 2
  /\ pc' = "check"
  /\ UNCHANGED <<verVars, aliased, cfgVars, envVars, genVars, tbatch, iter_no, filterVars>>

\* optimizer.zero_grad() ... optimizer.step(): one gradient step.  The code
\* has no test on obs_v being empty before this.
Update ==
  /\ pc = "update"
  /\ net_version' = net_version + 1
  /\ pc' = "check"
  /\ UNCHANGED <<verVars, aliased, cfgVars, envVars, genVars, tbatch, iter_no, filterVars>>

\* the test as it would be with ">="
Solved_ge(mean) == RatLE(Rat(SolvedThreshold, 1), mean)

\* "if reward_m > 199"
Solved(mean) == RatLT(Rat(SolvedThreshold, 1), mean)

CheckSolved ==
  /\ pc = "check"
  /\ Solved(reward_m)
  /\ pc' = "done"
  /\ UNCHANGED <<verVars, aliased, cfgVars, envVars, genVars, tbatch, iter_no, filterVars, net_version>>

CheckContinue ==
  /\ pc = "check"
  /\ ~Solved(reward_m)
  /\ pc' = "pull"
  /\ UNCHANGED <<verVars, aliased, cfgVars, envVars, genVars, tbatch, iter_no, filterVars, net_version>>

Next ==
  \/ Start
  \/ Resume
  \/ StepOn
  \/ StepDone
  \/ StepYield
  \/ Filter
  \/ Update
  \/ CheckSolved
  \/ CheckContinue

Spec == Init /\ [][Next]_vars

\* The program run with the simulator that ends an episode on action 0 or
\* at the time limit.  The program is one sequential thread: whatever
\* statement is next runs, hence the fairness condition.
InitFall == Init /\ env_kind = "fall"

SpecFall == InitFall /\ [][Next]_vars /\ WF_vars(Next)

\* ------------------------------------- filter_batch checked as a function
FRewards == {10, 20, 30}
FStepLists == { <<EpisodeStep(0, 1)>>, <<EpisodeStep(1, 0), EpisodeStep(2, 1)>> }
FEpisodes == { Episode(r, s) : r \in FRewards, s \in FStepLists }
FBatches == UNION { [1..k -> FEpisodes] : k \in 1..MaxFBatch }
Percentiles == {0, 30, 50, 70, 100}

InitFilter ==
  /\ pc = "filter"
  /\ tbatch \in FBatches
  /\ percentile \in Percentiles
  /\ batch_size = Len(tbatch)
  /\ env_kind = "unit" /\ env_K = 1
  /\ env_t = 0 /\ env_ret = 0 /\ env_log = <<>>
  /\ gen_started = TRUE
  /\ batch = tbatch /\ episode_reward = 0 /\ episode_steps = <<>>
  /\ obs = ResetObs /\ next_obs = ResetObs
  /\ iter_no = 0
  /\ obs_v = <<>> /\ acts_v = <<>> /\ kept = <<>>
  /\ reward_b = Rat(0, 1) /\ reward_m = Rat(0, 1)
  /\ net_version = 0
  /\ sampled_with = {} /\ tsampled = {}
  /\ aliased = TRUE

NextFilter == Filter

SpecFilter == InitFilter /\ [][NextFilter]_vars


\* ================================================================ claims
\* a batch has been handed to the training loop and is still its variable
Handed == iter_no >= 0

RECURSIVE FlatSteps(_)
FlatSteps(eps) == IF eps = <<>> THEN <<>> ELSE Head(eps).steps \o FlatSteps(Tail(eps))

\* the examples whose reward is at least the bound, in batch order
AtLeast(e, bound) == e.reward * bound.den >= bound.num
EliteOf(b, bound) == SelectSeq(b, LAMBDA e : AtLeast(e, bound))

RewardSet(b) == { b[i].reward : i \in 1..Len(b) }
MaxReward(b) == CHOOSE x \in RewardSet(b) : \A y \in RewardSet(b) : y <= x
MinReward(b) == CHOOSE x \in RewardSet(b) : \A y \in RewardSet(b) : x <= y

\* the k-th smallest reward of the batch, k = 1..Len(b)
OrderStat(b, k) ==
  CHOOSE x \in RewardSet(b) :
    /\ Cardinality({ i \in 1..Len(b) : b[i].reward < x }) < k
    /\ Cardinality({ i \in 1..Len(b) : b[i].reward <= x }) >= k

RECURSIVE TotalReward(_, _)
TotalReward(b, k) == IF k = 0 THEN 0 ELSE b[k].reward + TotalReward(b, k - 1)

\* C1: every batch handed to the training loop holds exactly batch_size
\* episodes; while the generator runs the batch under construction is
\* shorter than batch_size, and at the yield it is the batch handed over.
C1_BatchSize ==
  /\ Handed => Len(tbatch) = batch_size
  /\ pc = "gen" => Len(batch) < batch_size
  /\ pc = "filter" => batch = tbatch
  /\ Len(batch) <= batch_size

C1_Witness ==
  pc = "filter" /\ batch_size = 2 /\ iter_no = 1 /\ Len(tbatch) = 2

\* C2: after filter_batch, an example of the batch had its steps extended
\* into the training set if and only if its reward is at least reward_bound
\* (ties kept, everything below the bound dropped).
C2_EliteIff ==
  pc = "update" =>
    \A i \in 1..Len(tbatch) :
      (\E k \in 1..Len(kept) : kept[k] = i)
        <=> tbatch[i].reward * reward_b.den >= reward_b.num

C2_Witness ==
  /\ pc = "update"
  /\ \E i \in 1..Len(tbatch) :
       /\ tbatch[i].reward * reward_b.den = reward_b.num
       /\ \E k \in 1..Len(kept) : kept[k] = i
  /\ \E j \in 1..Len(tbatch) :
       /\ tbatch[j].reward * reward_b.den < reward_b.num
       /\ \A k \in 1..Len(kept) : kept[k] # j

\* C3: the training set is the concatenation, in batch order and step
\* order, of the steps of the examples with reward >= reward_bound; the
\* i-th observation and the i-th action are those of the same step; both
\* sequences have the same length, at most the number of steps of the batch.
C3_Concatenation ==
  pc = "update" =>
    LET fs == FlatSteps(EliteOf(tbatch, reward_b))
    IN  /\ Len(obs_v) = Len(fs)
        /\ Len(acts_v) = Len(fs)
        /\ \A i \in 1..Len(fs) :
             obs_v[i] = fs[i].observation /\ acts_v[i] = fs[i].action
        /\ Len(obs_v) = Len(acts_v)
        /\ Len(obs_v) <= Len(FlatSteps(tbatch))

C3_Witness ==
  /\ pc = "update"
  /\ Len(tbatch) = 3
  /\ kept = <<1, 3>>
  /\ Len(tbatch[1].steps) = 2 /\ Len(tbatch[3].steps) = 1
  /\ Len(obs_v) = 3

\* C4: the loop ends exactly when the batch mean is strictly above 199: it
\* is at "done" only with a mean above 199, it goes on only with a mean of
\* 199 or less, and after it has ended no batch is pulled and no update is
\* made.
C4_StopsWhenSolved ==
  /\ [](/\ pc = "done" => reward_m.num > 199 * reward_m.den
        /\ (pc \in {"pull", "gen"} /\ Handed) => reward_m.num <= 199 * reward_m.den)
  /\ [][/\ pc = "check" =>
             pc' = IF reward_m.num > 199 * reward_m.den THEN "done" ELSE "pull"
        /\ pc = "done" => UNCHANGED <<pc, iter_no, tbatch, net_version, batch, env_t>>]_vars

C4_Witness ==
  pc = "done" /\ iter_no = 0 /\ net_version = 1

\* C5: one iteration is pull, filter, update, stopping test, in this order,
\* with one parameter update per batch: before the update of a batch the
\* number of updates is one less than the number of batches pulled, from
\* the stopping test on it is equal - also when the loop has ended.
C5_OneUpdatePerBatch ==
  /\ [](/\ pc \in {"filter", "update"} => net_version = BatchesPulled - 1
        /\ pc \in {"check", "done", "pull", "gen"} => net_version = BatchesPulled)
  /\ [][/\ pc = "pull" => pc' = "gen" /\ UNCHANGED <<net_version, iter_no, filterVars>>
        /\ pc = "gen" => pc' \in {"gen", "filter"} /\ UNCHANGED <<net_version, filterVars>>
        /\ pc = "filter" => pc' = "update" /\ UNCHANGED <<net_version, iter_no>>
        /\ pc = "update" => pc' = "check" /\ net_version' = net_version + 1
                            /\ UNCHANGED <<iter_no, filterVars>>
        /\ pc = "check" => pc' \in {"pull", "done"}
                           /\ UNCHANGED <<net_version, iter_no, filterVars>>
        /\ iter_no' # iter_no => iter_no' = iter_no + 1 /\ pc' = "filter"]_vars

C5_Witness ==
  pc = "done" /\ iter_no = 1 /\ net_version = 2

\* C7: every episode of a batch has as reward the sum of the rewards the
\* environment handed out between the reset that began it and its done, and
\* one step per environment step of that span; nothing is carried over from
\* an earlier episode or batch.  With the environment that ends after
\* exactly env_K steps of reward 1, every episode has reward env_K and
\* env_K steps.
MatchesEnv(b) ==
  /\ Len(b) = Len(env_log)
  /\ \A i \in 1..Len(b) :
       b[i].reward = env_log[i].ret /\ Len(b[i].steps) = env_log[i].len

C7_EpisodeTotals ==
  /\ pc = "gen" => MatchesEnv(batch)
  /\ pc \in {"filter", "update", "check", "done"} => MatchesEnv(tbatch)
  /\ pc = "gen" => episode_reward = env_ret /\ Len(episode_steps) = env_t
  /\ (env_kind = "unit" /\ Handed) =>
       \A i \in 1..Len(tbatch) :
         tbatch[i].reward = env_K /\ Len(tbatch[i].steps) = env_K

C7_Witness ==
  /\ pc = "filter" /\ iter_no = 1
  /\ env_kind = "unit" /\ env_K = 2 /\ batch_size = 2
  /\ \A i \in 1..2 : tbatch[i].reward = 2 /\ Len(tbatch[i].steps) = 2

\* C8: at percentile 100 reward_bound is the largest reward of the batch,
\* at percentile 0 the smallest.
C8_Extremes ==
  pc = "update" =>
    /\ percentile = 100 => reward_b.num = MaxReward(tbatch) * reward_b.den
    /\ percentile = 0 => reward_b.num = MinReward(tbatch) * reward_b.den

C8_Witness ==
  /\ pc = "update" /\ percentile = 100
  /\ Len(tbatch) = 3
  /\ tbatch[1].reward = 30 /\ tbatch[2].reward = 10 /\ tbatch[3].reward = 20
  /\ reward_b.num = 30 * reward_b.den

\* C9: reward_bound is the value at rank percentile/100*(n-1) of the ordered
\* rewards, interpolated linearly between the two neighbouring order
\* statistics, and reward_mean is the sum of the rewards over n; rewards
\* 10, 20, 30 at percentile 70 give bound 24 and mean 20, and only the
\* episode of reward 30 is kept.
C9_Interpolation ==
  pc = "update" =>
    LET n   == Len(tbatch)
        pos == percentile * (n - 1)
        lo  == pos \div 100
        fr  == pos % 100
        a   == OrderStat(tbatch, lo + 1)
        b   == OrderStat(tbatch, IF lo + 2 > n THEN n ELSE lo + 2)
    IN  /\ 100 * reward_b.num = (100 * a + fr * (b - a)) * reward_b.den
        /\ reward_m.num * n = TotalReward(tbatch, n) * reward_m.den
        /\ (RewardsOf(tbatch) = <<10, 20, 30>> /\ percentile = 70) =>
             /\ reward_b.num = 24 * reward_b.den
             /\ reward_m.num = 20 * reward_m.den
             /\ kept = <<3>>

C9_Witness ==
  /\ pc = "update" /\ percentile = 70
  /\ RewardsOf(tbatch) = <<10, 20, 30>>
  /\ kept = <<3>>


\* C11: the run ends only through the stopping test.  The loop is over
\* only with a mean above 199 and only from the stopping test; executed
\* fairly, the program never comes to rest anywhere else: it goes on until
\* the loop is over or until exploration stops after MaxIters batches, so
\* neither the generator nor the loop ends or stalls by itself.  While the
\* training loop has control, and after it has ended, the generator rests
\* at its yield: the environment has just been reset and has not been
\* stepped since.
C11_EndsOnlyWhenSolved ==
  /\ [](/\ pc = "done" => reward_m.num > 199 * reward_m.den
        /\ pc \in {"filter", "update", "check", "done"} =>
             /\ env_t = 0 /\ env_ret = 0
             /\ episode_steps = <<>> /\ episode_reward = 0
             /\ batch = tbatch
             /\ Len(env_log) = Len(tbatch))
  /\ [][pc' = "done" => pc = "check"]_vars
  /\ <>[](pc = "done" \/ (pc = "pull" /\ BatchesPulled >= MaxIters))

C11_Witness ==
  /\ pc = "gen" /\ iter_no = 0 /\ Len(batch) = 1 /\ env_t = 1
  /\ reward_m.num <= 199 * reward_m.den


\* C12: the parameters are written only while the generator rests at a
\* yield.  While a batch is generated no update happens (the number of
\* updates stays the number of batches pulled) and every action of it is
\* sampled with that one parameter version; the first batch is sampled
\* with the initial parameters and batch n+1 entirely with the parameters
\* left by the update on batch n.
C12_OneVersionPerBatch ==
  /\ pc = "gen" => /\ net_version = BatchesPulled
                   /\ sampled_with \subseteq {net_version}
  /\ Handed => tsampled = {iter_no}
  /\ pc \in {"filter", "update"} => net_version = iter_no
  /\ pc \in {"check", "done"} => net_version = iter_no + 1

C12_Witness ==
  /\ pc = "filter" /\ iter_no = 1 /\ batch_size = 2
  /\ tsampled = {1}
  /\ Len(tbatch[1].steps) = 2


\* C13: every recorded step holds the observation the action was chosen
\* from, the one before the step.  The simulators return 0 from reset() and
\* t from the t-th step of an episode, so step k of every episode - also of
\* the first episode after a yield - must hold k-1: the reset's observation
\* first, then the one returned by the step before.  The observation
\* returned together with done (the episode's length) is in no step, and
\* the observation the policy is given next is the environment's latest
\* one that did not come with done.
StepsFromBefore(steps) ==
  \A k \in 1..Len(steps) :
    /\ steps[k].observation = k - 1
    /\ steps[k].observation # Len(steps)

C13_PreStepObservation ==
  /\ \A i \in 1..Len(batch) : StepsFromBefore(batch[i].steps)
  /\ \A i \in 1..Len(tbatch) : StepsFromBefore(tbatch[i].steps)
  /\ \A k \in 1..Len(episode_steps) : episode_steps[k].observation = k - 1
  /\ pc = "gen" => obs = env_t
  /\ pc \in {"filter", "update", "check", "done", "pull"} => next_obs = ResetObs

C13_Witness ==
  /\ pc = "filter" /\ iter_no = 1 /\ batch_size = 2
  /\ Len(tbatch[1].steps) = 2
  /\ tbatch[1].steps[1].observation = 0
  /\ tbatch[1].steps[2].observation = 1


\* C14: a batch handed to the training loop is never changed afterwards.
\* The loop's batch changes only at a yield, where it becomes the batch
\* just completed; resuming the generator leaves it as it is and starts the
\* next batch empty on a list of its own; and a batch holds only episodes
\* the environment finished while that batch was generated, so no episode
\* is in two batches.
C14_HandedBatchFrozen ==
  [][/\ tbatch' # tbatch =>
          /\ pc = "gen" /\ pc' = "filter"
          /\ tbatch' = batch'
     /\ (pc = "pull" /\ pc' = "gen") =>
          /\ batch' = <<>>
          /\ tbatch' = tbatch
          /\ ~aliased'
     /\ pc' = "gen" => ~aliased' /\ Len(batch') = Len(env_log')
     /\ pc' = "filter" => Len(tbatch') = Len(env_log')]_vars

C14_Witness ==
  /\ pc = "gen" /\ iter_no = 0 /\ batch_size = 2
  /\ Len(batch) = 1 /\ Len(tbatch) = 2
  /\ ~aliased


\* C15: for every batch the generator yields and every percentile 0..100
\* the training set is not empty: every episode has at least one step,
\* reward_bound is never above the largest reward of the batch, and the
\* examples of largest reward are always kept.
NonEmptyTraining(b, res) ==
  /\ res.reward_b.num <= MaxReward(b) * res.reward_b.den
  /\ \A i \in 1..Len(b) :
       b[i].reward = MaxReward(b) => \E k \in 1..Len(res.kept) : res.kept[k] = i
  /\ res.obs_v # <<>> /\ res.acts_v # <<>>

C15_TrainingSetNonEmpty ==
  /\ \A i \in 1..Len(batch) : Len(batch[i].steps) >= 1
  /\ \A i \in 1..Len(tbatch) : Len(tbatch[i].steps) >= 1
  /\ Handed => Len(tbatch) >= 1
  /\ pc = "filter" =>
       \A q \in 0..100 : NonEmptyTraining(tbatch, filter_batch(tbatch, q))
  /\ pc \in {"update", "check", "done"} =>
       NonEmptyTraining(tbatch, [reward_b |-> reward_b, kept |-> kept,
                                 obs_v |-> obs_v, acts_v |-> acts_v])

C15_Witness ==
  /\ pc = "update" /\ batch_size = 2
  /\ Len(kept) = 1
  /\ Len(tbatch[kept[1]].steps) = 1
  /\ Len(obs_v) = 1 /\ Len(acts_v) = 1

====
